---- MODULE Spec2Model ----
(***************************************************************************)
(* A model of the type-level and value-level exercises of the repository:  *)
(*   - MyAwaited<T>            (easy/06.index-signatures.ts)               *)
(*   - GroceryItem, CapreseSalad (easy/10.generic-type-arguments.ts)       *)
(*   - identity, mapArray      (easy/13.generic-function-arguments.ts)     *)
(*   - ApiRequest, TSConfig    (unnamed/part_001)                          *)
(* Types are terms; a conditional type is evaluated one instantiation at a *)
(* time, the way the checker resolves it.                                  *)
(***************************************************************************)
EXTENDS Integers, Sequences, FiniteSets, TLC

\* ------------------------------------------------------------ bounds
\* Layers of Promise / thenable wrapping around a leaf type.
MaxDepth == 2
\* Longest input array, largest element, and arrays the heap may hold.
MaxLen == 2
MaxVal == 2
MaxRefs == 3

\* ------------------------------------------------------------ type terms
Prim(n) == [kind |-> "prim", name |-> n]
Lit(b, v) == [kind |-> "lit", base |-> b, val |-> v]
PromiseOf(t) == [kind |-> "promise", arg |-> t]
Fn(ps, r) == [kind |-> "fn", params |-> ps, ret |-> r]
Obj(f) == [kind |-> "obj", fields |-> f]
UnionOf(S) == [kind |-> "union", members |-> S]
Ref(n) == [kind |-> "ref", name |-> n]
AnyT == Prim("any")
VoidT == Prim("void")
StringT == Prim("string")
NumberT == Prim("number")
BooleanT == Prim("boolean")

\* { then: (onfulfilled: (arg: a) => any) => r }
Thenable(a, r) == Obj([then |-> Fn(<<Fn(<<a>>, AnyT)>>, r)])

\* Named interfaces a caller may declare; the only way a type refers to itself.
\*   interface Loop  { then: (onfulfilled: (arg: Loop) => any) => void }
\*   interface PLoop extends Promise<PLoop> {}
Decls == [Loop |-> Thenable(Ref("Loop"), VoidT), PLoop |-> PromiseOf(Ref("PLoop"))]

Resolve(t) == IF t.kind = "ref" THEN Decls[t.name] ELSE t

\* ------------------------------------------------------------ type arguments
\* What `then` may return; the pattern of rule 2 accepts any of them.
RetTypes == {VoidT, NumberT}

\* Leaf types: primitives, a literal, an object whose `then` is not callable,
\* and the two self-referential interfaces.
BaseTypes ==
  {StringT, NumberT, Lit("string", "x"), Obj([then |-> NumberT]),
   Ref("Loop"), Ref("PLoop")}

Wrap(S) ==
  {PromiseOf(t) : t \in S} \cup {Thenable(t, r) : t \in S, r \in RetTypes}

RECURSIVE Chains(_, _)
Chains(S, d) == IF d = 0 THEN S ELSE S \cup Wrap(Chains(S, d - 1))

\* Union construction as the checker does it: a literal is absorbed by its
\* primitive, a union of one member is that member, of none is never.
MkUnion(S) ==
  LET kept == {t \in S : ~(t.kind = "lit" /\ Prim(t.base) \in S)}
  IN  IF kept = {} THEN Prim("never")
      ELSE IF Cardinality(kept) = 1 THEN CHOOSE t \in kept : TRUE
      ELSE UnionOf(kept)

UnionMembers == BaseTypes \cup Wrap(BaseTypes)
UnionTypes == {MkUnion({a, b}) : a \in UnionMembers, b \in UnionMembers}

AwaitedArgs == Chains(BaseTypes \cup UnionTypes, MaxDepth)
ChainArgs == Chains(BaseTypes, MaxDepth)

\* ------------------------------------------------------------ MyAwaited<T>
\* Rule 1: T extends Promise<infer U>
IsPromise(t) == Resolve(t).kind = "promise"
InferPromise(t) == Resolve(t).arg

\* Rule 2: T extends { then: (onfulfilled: (arg: infer U) => any) => any }
MatchesThenable(t) ==
  LET r == Resolve(t)
  IN  /\ r.kind = "obj"
      /\ "then" \in DOMAIN r.fields
      /\ r.fields.then.kind = "fn"
      /\ Len(r.fields.then.params) = 1
      /\ r.fields.then.params[1].kind = "fn"
      /\ Len(r.fields.then.params[1].params) = 1
\* Faulty variant: U read off the return type of `then`.
InferThenableFromReturn(t) == Resolve(t).fields.then.ret
InferThenable(t) == Resolve(t).fields.then.params[1].params[1]

\* T is a naked type parameter: the conditional distributes over a union.
IsUnion(t) == t.kind = "union"

\* The true branches, `? MyAwaited<U>`: U is instantiated again, not returned.
\* Faulty variant: `? U`, one layer removed and no more.
PromiseBranchReturnsU(u) == [pending |-> {}, resolved |-> {u}]
PromiseBranch(u) == [pending |-> {u}, resolved |-> {}]
\* Faulty variant: `? U` in the second rule.
ThenableBranchReturnsU(u) == [pending |-> {}, resolved |-> {u}]
ThenableBranch(u) == [pending |-> {u}, resolved |-> {}]
\* Faulty variant: `: MyAwaited<T>`, the false branch instantiating T again.
ElseBranchRecurs(t) == [pending |-> {t}, resolved |-> {}]
\* The false branch, `: T`.
ElseBranch(t) == [pending |-> {}, resolved |-> {t}]

\* MyAwaited<t> as a function of t, for a t that refers to no cyclic interface.
RECURSIVE MyAwaited(_)
MyAwaited(t) ==
  IF IsUnion(t) THEN MkUnion({MyAwaited(m) : m \in t.members})
  ELSE IF IsPromise(t) THEN MyAwaited(InferPromise(t))
  ELSE IF MatchesThenable(t) THEN MyAwaited(InferThenable(t))
  ELSE t

NoType == [kind |-> "none"]

\* A cyclic type never reaches the base case; the model stops following it here.
StepLimit == MaxDepth + 3


\* ------------------------------------------------------------ generic aliases
\* A type expression of an alias body: a parameter, or a lookup Param['key'].
ParamRef(n) == [kind |-> "param", name |-> n]
IndexAccess(o, k) == [kind |-> "index", object |-> o, key |-> k]
\* A type parameter: <n extends constraint = default>, NoType where absent.
TParam(n, c, d) == [name |-> n, constraint |-> c, default |-> d]

\* Faulty variant: `price: number`, the field typed by hand instead of by its parameter.
GroceryItemFixedPrice ==
  [params |-> <<TParam("Name", NoType, NoType), TParam("Price", NoType, NoType),
                TParam("InStock", NoType, NoType)>>,
   body |-> [name |-> ParamRef("Name"), price |-> NumberT,
             inStock |-> ParamRef("InStock")]]
GroceryItem ==
  [params |-> <<TParam("Name", NoType, NoType), TParam("Price", NoType, NoType),
                TParam("InStock", NoType, NoType)>>,
   body |-> [name |-> ParamRef("Name"), price |-> ParamRef("Price"),
             inStock |-> ParamRef("InStock")]]

\* Faulty variant: `Method = string`, the default widened.
ApiRequestStringDefault ==
  [params |-> <<TParam("Data", NoType, NoType),
                TParam("Method", NoType, StringT)>>,
   body |-> [data |-> ParamRef("Data"), method |-> ParamRef("Method")]]
ApiRequest ==
  [params |-> <<TParam("Data", NoType, NoType),
                TParam("Method", NoType, Lit("string", "GET"))>>,
   body |-> [data |-> ParamRef("Data"), method |-> ParamRef("Method")]]

\* Faulty variant: `strict: true`, the default's field copied instead of looked up.
TSConfigCopiesDefault ==
  [params |-> <<TParam("Param", Obj([strict |-> BooleanT]),
                       Obj([strict |-> Lit("boolean", "true")]))>>,
   body |-> [strict |-> Lit("boolean", "true")]]
TSConfig ==
  [params |-> <<TParam("Param", Obj([strict |-> BooleanT]),
                       Obj([strict |-> Lit("boolean", "true")]))>>,
   body |-> [strict |-> IndexAccess(ParamRef("Param"), "strict")]]

Aliases == [GroceryItem |-> GroceryItem, ApiRequest |-> ApiRequest, TSConfig |-> TSConfig]

\* S extends T, structurally: a literal is assignable to its primitive, an
\* object to any object type all of whose members it has.
RECURSIVE Assignable(_, _)
Assignable(s, t) ==
  \/ s = t
  \/ t \in {AnyT, Prim("unknown")}
  \/ s.kind = "lit" /\ t.kind = "prim" /\ s.base = t.name
  \/ /\ s.kind = "obj"
     /\ t.kind = "obj"
     /\ \A f \in DOMAIN t.fields :
          f \in DOMAIN s.fields /\ Assignable(s.fields[f], t.fields[f])

RECURSIVE EvalType(_, _)
EvalType(e, env) ==
  IF e.kind = "param" THEN env[e.name]
  ELSE IF e.kind = "index" THEN EvalType(e.object, env).fields[e.key]
  ELSE e

NoInst == [ok |-> FALSE, error |-> "unresolved", type |-> NoType]

\* Alias<args>: arity, defaults for the omitted trailing arguments, the
\* constraints, then substitution into the body.
Instantiate(decl, args) ==
  LET n == Len(decl.params)
      required == Cardinality({i \in 1..n : decl.params[i].default = NoType})
  IN  IF Len(args) > n \/ Len(args) < required
      THEN [ok |-> FALSE, error |-> "arity", type |-> NoType]
      ELSE
        LET full == [i \in 1..n |->
                       IF i <= Len(args) THEN args[i] ELSE decl.params[i].default]
            names == {decl.params[i].name : i \in 1..n}
            env == [nm \in names |->
                      full[CHOOSE i \in 1..n : decl.params[i].name = nm]]
            violated == \E i \in 1..n :
                          /\ decl.params[i].constraint # NoType
                          /\ ~Assignable(full[i], decl.params[i].constraint)
        IN  IF violated
            THEN [ok |-> FALSE, error |-> "constraint", type |-> NoType]
            ELSE [ok |-> TRUE, error |-> "none",
                  type |-> Obj([f \in DOMAIN decl.body |-> EvalType(decl.body[f], env)])]

\* type CapreseSalad = GroceryItem<'Caprese Salad', 14.99, true>
CapreseSaladArgs ==
  <<Lit("string", "Caprese Salad"), Lit("number", "14.99"), Lit("boolean", "true")>>
CapreseSalad == Instantiate(GroceryItem, CapreseSaladArgs)

\* Type arguments a use of the aliases may supply.
TypeArgs ==
  {StringT, NumberT, BooleanT,
   Lit("string", "GET"), Lit("string", "POST"), Lit("string", "Caprese Salad"),
   Lit("number", "14.99"), Lit("boolean", "true"), Lit("boolean", "false"),
   Obj([strict |-> Lit("boolean", "false")]),
   Obj([strict |-> Lit("boolean", "true")]),
   Obj([strict |-> BooleanT]),
   Obj([strict |-> Lit("boolean", "false"), extra |-> Lit("number", "1")]),
   Obj([extra |-> Lit("number", "1")]),
   Obj([strict |-> StringT])}

RECURSIVE ArgLists(_)
ArgLists(n) ==
  IF n = 0 THEN {<<>>}
  ELSE ArgLists(n - 1) \cup {Append(a, t) : a \in {b \in ArgLists(n - 1) : Len(b) = n - 1}, t \in TypeArgs}


\* ------------------------------------------------------------ identity, mapArray
ArrayOf(t) == [kind |-> "array", elem |-> t]

\* const identity = <T,>(param: T): T => { return param }
identity(param) == param
\* The signature with T := targ.
\* Faulty variant: the return type annotated with the widened base type.
IdentitySignatureWidened(targ) ==
  [param |-> targ, ret |-> IF targ.kind = "lit" THEN Prim(targ.base) ELSE targ]
IdentitySignature(targ) == [param |-> targ, ret |-> targ]

\* Transforms a caller may pass as fn; each is assignable to (param: number) => number:
\*   double = (x) => x * 2      seven = () => 7      same = (x) => x
\*   scale  = (x, k = 1) => x * k
Transforms == {"double", "seven", "same", "scale"}
Apply(f, args) ==
  CASE f = "double" -> args[1] * 2
    [] f = "seven" -> 7
    [] f = "same" -> args[1]
    [] f = "scale" -> args[1] * (IF Len(args) >= 2 THEN args[2] ELSE 1)

\* Array.prototype.map: a new array of the same length, element i being
\* callbackfn(element, index, array).
ArrayMap(h, r, f) == [i \in 1..Len(h[r]) |-> Apply(f, <<h[r][i], i - 1, r>>)]

\* const mapArray = <T, U>(arr: Array<T>, fn: (param: T) => U) => arr.map(fn)
\* Arrays live in a heap; a reference is an index into it.
\* Faulty variant: the elements written back into arr, which is returned.
mapArrayInPlace(h, r, f) == [heap |-> [h EXCEPT ![r] = ArrayMap(h, r, f)], ret |-> r]
mapArray(h, r, f) == [heap |-> Append(h, ArrayMap(h, r, f)), ret |-> Len(h) + 1]

RECURSIVE Arrays(_)
Arrays(n) ==
  IF n = 0 THEN {<<>>}
  ELSE Arrays(n - 1) \cup {Append(a, v) : a \in {b \in Arrays(n - 1) : Len(b) = n - 1}, v \in 0..MaxVal}

IdentityTypes ==
  {NumberT, StringT, Lit("string", "GET"), Lit("boolean", "true"), ArrayOf(NumberT)}
ValuesOf(t, h) ==
  CASE t = NumberT -> 0..MaxVal
    [] t = StringT -> {"a", "b"}
    [] t = Lit("string", "GET") -> {"GET"}
    [] t = Lit("boolean", "true") -> {TRUE}
    [] t = ArrayOf(NumberT) -> DOMAIN h

NoCall ==
  [fn |-> "none", targ |-> NoType, arg |-> 0, f |-> "none", before |-> <<>>,
   ret |-> 0, retType |-> NoType]

VARIABLES
  T,         \* the type argument written in MyAwaited<T>
  pending,   \* the instantiations MyAwaited<t> still to resolve
  resolved,  \* the constituents the instantiation resolved to so far
  steps,     \* recursive instantiations MyAwaited<U> made so far
  pc,        \* "eval" | "done" | "idle"
  result,    \* the type MyAwaited<T> resolved to
  round,     \* 1: MyAwaited<T>; 2: MyAwaited<MyAwaited<T>>
  first,     \* the result of round 1
  alias,     \* the generic alias last instantiated
  targs,     \* the type arguments it was given
  inst,      \* what the instantiation produced
  heap,      \* the arrays allocated so far, by reference
  call       \* the last call of identity or mapArray, with what it returned

awaitedVars == <<T, pending, resolved, steps, pc, result, round, first>>
genericVars == <<alias, targs, inst>>
fnVars == <<heap, call>>
vars ==
  <<T, pending, resolved, steps, pc, result, round, first, alias, targs, inst,
    heap, call>>

IdleAwaited ==
  /\ T = NoType
  /\ pending = {}
  /\ resolved = {}
  /\ steps = 0
  /\ pc = "idle"
  /\ result = NoType
  /\ round = 0
  /\ first = NoType

IdleGeneric ==
  /\ alias = "none"
  /\ targs = <<>>
  /\ inst = NoInst

IdleFn ==
  /\ heap = <<>>
  /\ call = NoCall

StartAwaited(t) ==
  /\ T = t
  /\ pending = {t}
  /\ resolved = {}
  /\ steps = 0
  /\ pc = "eval"
  /\ result = NoType
  /\ round = 1
  /\ first = NoType

Distribute ==
  /\ pc = "eval"
  /\ \E t \in pending :
       /\ IsUnion(t)
       /\ pending' = (pending \ {t}) \cup t.members
  /\ UNCHANGED <<T, resolved, steps, pc, result, round, first>>
  /\ UNCHANGED <<genericVars, fnVars>>

UnwrapPromise ==
  /\ pc = "eval"
  /\ steps < StepLimit
  /\ \E t \in pending :
       /\ ~IsUnion(t)
       /\ IsPromise(t)
       /\ LET b == PromiseBranch(InferPromise(t))
          IN  /\ pending' = (pending \ {t}) \cup b.pending
              /\ resolved' = resolved \cup b.resolved
  /\ steps' = steps + 1
  /\ UNCHANGED <<T, pc, result, round, first>>
  /\ UNCHANGED <<genericVars, fnVars>>

UnwrapThenable ==
  /\ pc = "eval"
  /\ steps < StepLimit
  /\ \E t \in pending :
       /\ ~IsUnion(t)
       /\ ~IsPromise(t)
       /\ MatchesThenable(t)
       /\ LET b == ThenableBranch(InferThenable(t))
          IN  /\ pending' = (pending \ {t}) \cup b.pending
              /\ resolved' = resolved \cup b.resolved
  /\ steps' = steps + 1
  /\ UNCHANGED <<T, pc, result, round, first>>
  /\ UNCHANGED <<genericVars, fnVars>>

BaseCase ==
  /\ pc = "eval"
  /\ \E t \in pending :
       /\ ~IsUnion(t)
       /\ ~IsPromise(t)
       /\ ~MatchesThenable(t)
       /\ LET b == ElseBranch(t)
          IN  /\ pending' = (pending \ {t}) \cup b.pending
              /\ resolved' = resolved \cup b.resolved
  /\ UNCHANGED <<T, steps, pc, result, round, first>>
  /\ UNCHANGED <<genericVars, fnVars>>

Finish ==
  /\ pc = "eval"
  /\ pending = {}
  /\ result' = MkUnion(resolved)
  /\ pc' = "done"
  /\ UNCHANGED <<T, pending, resolved, steps, round, first>>
  /\ UNCHANGED <<genericVars, fnVars>>

\* MyAwaited<MyAwaited<T>>: the result of round 1 is instantiated again.
Reapply ==
  /\ pc = "done"
  /\ round = 1
  /\ UNCHANGED T
  /\ first' = result
  /\ pending' = {result}
  /\ resolved' = {}
  /\ steps' = 0
  /\ pc' = "eval"
  /\ result' = NoType
  /\ round' = 2
  /\ UNCHANGED <<genericVars, fnVars>>

InitAwaited == IdleGeneric /\ IdleFn /\ \E t \in AwaitedArgs : StartAwaited(t)
NextAwaited ==
  \/ Distribute
  \/ UnwrapPromise
  \/ UnwrapThenable
  \/ BaseCase
  \/ Finish
  \/ Reapply
SpecAwaited == InitAwaited /\ [][NextAwaited]_vars

\* ------------------------------------------------------------ alias uses
\* A use Alias<targs> written in the program; resolving it is one step.
Written(name, args) ==
  /\ alias = name
  /\ targs = args
  /\ inst = NoInst

UseGroceryItem ==
  /\ alias = "GroceryItem"
  /\ inst = NoInst
  /\ inst' = Instantiate(GroceryItem, targs)
  /\ UNCHANGED <<alias, targs>>
  /\ UNCHANGED <<awaitedVars, fnVars>>

UseApiRequest ==
  /\ alias = "ApiRequest"
  /\ inst = NoInst
  /\ inst' = Instantiate(ApiRequest, targs)
  /\ UNCHANGED <<alias, targs>>
  /\ UNCHANGED <<awaitedVars, fnVars>>

UseTSConfig ==
  /\ alias = "TSConfig"
  /\ inst = NoInst
  /\ inst' = Instantiate(TSConfig, targs)
  /\ UNCHANGED <<alias, targs>>
  /\ UNCHANGED <<awaitedVars, fnVars>>

InitGeneric ==
  /\ IdleAwaited
  /\ IdleFn
  /\ \E name \in DOMAIN Aliases :
       \E args \in ArgLists(Len(Aliases[name].params)) : Written(name, args)
NextGeneric ==
  \/ UseGroceryItem
  \/ UseApiRequest
  \/ UseTSConfig
SpecGeneric == InitGeneric /\ [][NextGeneric]_vars

\* ------------------------------------------------------------ calls
CallIdentity ==
  /\ \E targ \in IdentityTypes :
       \E v \in ValuesOf(targ, heap) :
         call' = [fn |-> "identity", targ |-> targ, arg |-> v, f |-> "none",
                  before |-> heap, ret |-> identity(v),
                  retType |-> IdentitySignature(targ).ret]
  /\ UNCHANGED heap
  /\ UNCHANGED <<awaitedVars, genericVars>>

CallMapArray ==
  /\ Len(heap) < MaxRefs
  /\ \E r \in DOMAIN heap :
       \E f \in Transforms :
         LET out == mapArray(heap, r, f)
         IN  /\ heap' = out.heap
             /\ call' = [fn |-> "mapArray", targ |-> NoType, arg |-> r, f |-> f,
                         before |-> heap, ret |-> out.ret, retType |-> NoType]
  /\ UNCHANGED <<awaitedVars, genericVars>>

InitFn ==
  /\ IdleAwaited
  /\ IdleGeneric
  /\ \E arr \in Arrays(MaxLen) : heap = <<arr>>
  /\ call = NoCall
NextFn ==
  \/ CallIdentity
  \/ CallMapArray
SpecFn == InitFn /\ [][NextFn]_vars

FairAwaited == SpecAwaited /\ WF_vars(NextAwaited)

\* ------------------------------------------------------------ properties of MyAwaited
\* The shape of a type, read off the term.
IsThenableTerm(t) ==
  t.kind = "obj" /\ "then" \in DOMAIN t.fields /\ t.fields.then.kind = "fn"
CallbackArg(t) == t.fields.then.params[1].params[1]

RECURSIVE StripPromise(_)
StripPromise(t) == IF t.kind = "promise" THEN StripPromise(t.arg) ELSE t

RECURSIVE Depth(_)
Depth(t) ==
  IF t.kind = "promise" THEN 1 + Depth(t.arg)
  ELSE IF IsThenableTerm(t) THEN 1 + Depth(CallbackArg(t))
  ELSE 0

\* t reaches one of the self-referential interfaces.
RECURSIVE Cyclic(_)
Cyclic(t) ==
  IF t.kind = "ref" THEN TRUE
  ELSE IF t.kind = "promise" THEN Cyclic(t.arg)
  ELSE IF IsThenableTerm(t) THEN Cyclic(CallbackArg(t))
  ELSE IF t.kind = "union" THEN \E m \in t.members : Cyclic(m)
  ELSE FALSE

\* Neither a Promise nor a thenable.
Plain(t) == ~IsPromise(t) /\ ~MatchesThenable(t)

\* C2 as stated: with P a type that is neither a Promise nor a thenable, wrapped
\* in k >= 0 layers of Promise, MyAwaited<T> is P.
C2_AsStated ==
  (pc = "done" /\ round = 1 /\ Plain(StripPromise(T))) => result = StripPromise(T)

\* C2 amended: the same, for a P that is moreover no union with a Promise or
\* thenable member; over a union the conditional type distributes.
C2_UnwrapsPromiseLayers ==
  (/\ pc = "done"
   /\ round = 1
   /\ Plain(StripPromise(T))
   /\ IsUnion(StripPromise(T)) => \A m \in StripPromise(T).members : Plain(m))
  => result = StripPromise(T)

C2_Witness ==
  /\ pc = "done"
  /\ round = 1
  /\ T = PromiseOf(PromiseOf(StringT))
  /\ steps = 2
  /\ result = StringT

\* C3: for T not a Promise with a member `then` whose callback takes an A,
\* MyAwaited<T> is MyAwaited<A>, whatever `then` returns; string for A = string.
C3_ThenableInfersCallbackParameter ==
  (pc = "done" /\ round = 1 /\ IsThenableTerm(T) /\ ~Cyclic(T))
  => /\ result = MyAwaited(CallbackArg(T))
     /\ CallbackArg(T) = StringT => result = StringT

C3_Witness ==
  /\ pc = "done"
  /\ round = 1
  /\ T = Thenable(StringT, NumberT)
  /\ result = StringT

\* C9: a finite nesting of depth d resolves after exactly d recursive
\* instantiations, each removing one layer, and its evaluation ends; an
\* evaluation that does not end is of a type that refers to itself.
C9_StepInvariant ==
  /\ (round = 1 /\ T \in ChainArgs /\ ~Cyclic(T))
     => /\ \A t \in pending : pending = {t} /\ steps + Depth(t) = Depth(T)
        /\ pending = {} => steps = Depth(T)
  /\ (round = 1 /\ steps > MaxDepth + 2) => Cyclic(T)
  /\ Cyclic(T) => pc # "done"

C9_TerminatesInDepthSteps ==
  /\ []C9_StepInvariant
  /\ (pc = "eval" /\ ~Cyclic(T)) ~> (pc = "done")

C9_Witness ==
  /\ pc = "done"
  /\ round = 1
  /\ T = Thenable(PromiseOf(NumberT), VoidT)
  /\ steps = 2
  /\ result = NumberT

\* C10: the result of MyAwaited on a finite nesting is neither a Promise nor a
\* thenable, and MyAwaited of it is the same type again.
C10_Idempotent ==
  /\ (round = 1 /\ pc = "done")
     => /\ Plain(result)
        /\ IsUnion(result) => \A m \in result.members : Plain(m)
  /\ (round = 2 /\ pc = "done") => result = first

C10_Witness ==
  /\ round = 2
  /\ pc = "done"
  /\ T = PromiseOf(Thenable(StringT, VoidT))
  /\ first = StringT
  /\ result = StringT

\* ------------------------------------------------------------ properties of the aliases
Resolved(name) == alias = name /\ inst # NoInst

\* C4: ApiRequest<Data> has data: Data and method: 'GET'; ApiRequest<Data, M>
\* has method: M.
C4_ApiRequestMethodDefault ==
  Resolved("ApiRequest") =>
    /\ Len(targs) = 1 =>
         inst = [ok |-> TRUE, error |-> "none",
                 type |-> Obj([data |-> targs[1], method |-> Lit("string", "GET")])]
    /\ Len(targs) = 2 =>
         inst = [ok |-> TRUE, error |-> "none",
                 type |-> Obj([data |-> targs[1], method |-> targs[2]])]

C4_Witness ==
  /\ Resolved("ApiRequest")
  /\ targs = <<NumberT>>
  /\ inst.ok
  /\ inst.type.fields.method = Lit("string", "GET")

\* C5: TSConfig's strict is Param['strict']: true with no argument, false for
\* {strict: false}, and false for the accepted {strict: false, extra: 1}.
HasBooleanStrict(t) ==
  /\ t.kind = "obj"
  /\ "strict" \in DOMAIN t.fields
  /\ t.fields.strict \in {BooleanT, Lit("boolean", "true"), Lit("boolean", "false")}

C5_TSConfigStrictLookup ==
  Resolved("TSConfig") =>
    /\ targs = <<>> => inst.ok /\ inst.type = Obj([strict |-> Lit("boolean", "true")])
    /\ targs = <<Obj([strict |-> Lit("boolean", "false")])>>
         => inst.ok /\ inst.type = Obj([strict |-> Lit("boolean", "false")])
    /\ targs = <<Obj([strict |-> Lit("boolean", "false"), extra |-> Lit("number", "1")])>>
         => inst.ok /\ inst.type = Obj([strict |-> Lit("boolean", "false")])
    /\ (Len(targs) = 1 /\ HasBooleanStrict(targs[1]))
         => inst.ok /\ inst.type = Obj([strict |-> targs[1].fields.strict])

C5_Witness ==
  /\ Resolved("TSConfig")
  /\ targs = <<Obj([strict |-> Lit("boolean", "false"), extra |-> Lit("number", "1")])>>
  /\ inst.ok
  /\ inst.type.fields.strict = Lit("boolean", "false")

\* C6: GroceryItem<N, P, S> has name: N, price: P, inStock: S, unwidened;
\* CapreseSalad has name: 'Caprese Salad', price: 14.99, inStock: true.
CapreseSaladShape ==
  Obj([name |-> Lit("string", "Caprese Salad"), price |-> Lit("number", "14.99"),
       inStock |-> Lit("boolean", "true")])

C1_ElementIsFnOfElementAlone ==
  call.fn = "mapArray" =>
    LET in == call.before[call.arg]
        out == heap[call.ret]
    IN  /\ Len(out) = Len(in)
        /\ \A i \in 1..Len(in) : out[i] = Apply(call.f, <<in[i]>>)

\* C7: identity(v) is v, typed T, for v of type T.
C7_IdentityReturnsArgument ==
  call.fn = "identity" =>
    /\ call.ret = call.arg
    /\ call.retType = call.targ
    /\ heap = call.before

C7_Witness ==
  /\ call.fn = "identity"
  /\ call.targ = Lit("string", "GET")
  /\ call.arg = "GET"
  /\ call.ret = "GET"
  /\ call.retType = Lit("string", "GET")

\* C8: mapArray leaves arr as it was and returns another array.
C8_InputNotMutated ==
  call.fn = "mapArray" =>
    /\ heap[call.arg] = call.before[call.arg]
    /\ \A r \in DOMAIN call.before : heap[r] = call.before[r]
    /\ call.ret # call.arg
    /\ call.ret \notin DOMAIN call.before

C8_Witness ==
  /\ call.fn = "mapArray"
  /\ call.f = "same"
  /\ heap[call.arg] = <<1, 2>>
  /\ heap[call.ret] = <<1, 2>>
  /\ call.ret # call.arg

====
